---- MODULE Spec2Model ----
(***************************************************************************)
(* Model of the fixed-size byte container `bytes<N>` of src/bytes.hpp.     *)
(*                                                                         *)
(* A container is a function from 0..N-1 to bytes (0..255), index 0 being  *)
(* data_[0].  Every member function is an operator computed the way the    *)
(* C++ computes it (integer promotion, truncation on the store into an     *)
(* unsigned char, the loops with their carries), and every call is an      *)
(* action that records the receiver before the call, the arguments and the *)
(* value returned.                                                         *)
(***************************************************************************)
EXTENDS Integers, Sequences, FiniteSets, TLC

VARIABLES
    N,      \* the template parameter of the instantiation under test
    data_,  \* bytes::data_, the N cells of the receiver
    op,     \* the member function called last ("ctor" after construction)
    arg,    \* its index / bit position / bit count argument
    val,    \* its second input: byte stored, integer converted, sizeof(IntType)
    old,    \* data_ of the receiver before the call
    ret,    \* the value the call returned
    steps   \* number of mutating calls made on the receiver

vars == <<N, data_, op, arg, val, old, ret, steps>>

\* ---------------------------------------------------------------- bounds
MaxN == 3        \* instantiations bytes<1> .. bytes<MaxN>
MaxOver == 2     \* how far arguments run past the last valid one
MaxSteps == 1    \* mutating calls made on one constructed receiver

\* byte values the constructed receivers are filled with:
\* 0x00, 0x01, 0x96 (1001 0110, not a bit palindrome), 0xFF
ByteVals == {0, 1, 150, 255}

\* ------------------------------------------------- integer/bit arithmetic
Min(a, b) == IF a < b THEN a ELSE b

\* store into a byte_t (unsigned char): keeps the low 8 bits
ToByte(v) == v % 256

\* a | b on promoted ints
RECURSIVE BitOr(_, _)
BitOr(a, b) ==
    IF a = 0 THEN b
    ELSE IF b = 0 THEN a
    ELSE 2 * BitOr(a \div 2, b \div 2)
         + (IF a % 2 = 1 \/ b % 2 = 1 THEN 1 ELSE 0)

\* a & b on promoted ints, a >= 0; b may be negative (two's complement:
\* \div floors and % is non-negative, so the low bit of -1 is 1)
RECURSIVE BitAnd(_, _)
BitAnd(a, b) ==
    IF a = 0 THEN 0
    ELSE 2 * BitAnd(a \div 2, b \div 2)
         + (IF a % 2 = 1 /\ b % 2 = 1 THEN 1 ELSE 0)

\* a ^ b on promoted non-negative ints
RECURSIVE BitXor(_, _)
BitXor(a, b) ==
    IF a = 0 THEN b
    ELSE IF b = 0 THEN a
    ELSE 2 * BitXor(a \div 2, b \div 2)
         + (IF a % 2 # b % 2 THEN 1 ELSE 0)

\* ~a on a promoted int
IntNot(a) == (-a) - 1

\* ------------------------------------------------------------ containers
\* bytes{} : data_[N]{} value-initialised
ZeroBytes == [i \in 0 .. N - 1 |-> 0]

\* operator| : byte-wise OR into a fresh result
OrBytes(a, b) == [i \in 0 .. N - 1 |-> ToByte(BitOr(a[i], b[i]))]

\* ---------------------------------------------------------------- shifts
RECURSIVE ShlLoop(_, _, _, _, _, _)
ShlLoop(d, byte_shift, bit_shift, i, result, carry) ==
    IF i < N - byte_shift
    THEN ShlLoop(d, byte_shift, bit_shift, i + 1,
                 [result EXCEPT ![i + byte_shift] =
                      ToByte(BitOr(d[i] * 2 ^ bit_shift, carry))],
                 ToByte(d[i] \div 2 ^ (8 - bit_shift)))
    ELSE result

ShlNoCarry(d, shift_bits) ==
    IF shift_bits = 0 THEN d
    ELSE IF shift_bits >= N * 8 THEN ZeroBytes
    ELSE LET byte_shift == shift_bits \div 8
             bit_shift == shift_bits % 8
         IN [i \in 0 .. N - 1 |->
                IF i >= byte_shift
                THEN ToByte(d[i - byte_shift] * 2 ^ bit_shift) ELSE 0]

\* bytes::operator<<(index_t)
Shl(d, shift_bits) ==
    IF shift_bits = 0 THEN d
    ELSE IF shift_bits >= N * 8 THEN ZeroBytes
    ELSE LET byte_shift == shift_bits \div 8
             bit_shift == shift_bits % 8
         IN IF bit_shift = 0
            THEN [i \in 0 .. N - 1 |->
                     IF i >= byte_shift THEN d[i - byte_shift] ELSE 0]
            ELSE ShlLoop(d, byte_shift, bit_shift, 0, ZeroBytes, 0)

\* the loop `for (i = N - byte_shift ; i-- > 0 ;)`: i is the counter
\* before the test, the body runs with i - 1
RECURSIVE ShrLoop(_, _, _, _, _, _)
ShrLoop(d, byte_shift, bit_shift, i, result, carry) ==
    IF i > 0
    THEN LET j == i - 1
         IN ShrLoop(d, byte_shift, bit_shift, j,
                    [result EXCEPT ![j] =
                         ToByte(BitOr(d[j + byte_shift] \div 2 ^ bit_shift,
                                      carry))],
                    ToByte(d[j + byte_shift] * 2 ^ (8 - bit_shift)))
    ELSE result

ShrNoCarry(d, shift_bits) ==
    IF shift_bits = 0 THEN d
    ELSE IF shift_bits >= N * 8 THEN ZeroBytes
    ELSE LET byte_shift == shift_bits \div 8
             bit_shift == shift_bits % 8
         IN [i \in 0 .. N - 1 |->
                IF i < N - byte_shift
                THEN d[i + byte_shift] \div 2 ^ bit_shift ELSE 0]

\* bytes::operator>>(index_t)
Shr(d, shift_bits) ==
    IF shift_bits = 0 THEN d
    ELSE IF shift_bits >= N * 8 THEN ZeroBytes
    ELSE LET byte_shift == shift_bits \div 8
             bit_shift == shift_bits % 8
         IN IF bit_shift = 0
            THEN [i \in 0 .. N - 1 |->
                     IF i < N - byte_shift THEN d[i + byte_shift] ELSE 0]
            ELSE ShrLoop(d, byte_shift, bit_shift, N - byte_shift,
                         ZeroBytes, 0)

\* -------------------------------------------------------------- rotation
RotlNoMod(d, n) == OrBytes(Shl(d, n), Shr(d, N * 8 - Min(n, N * 8)))

\* bytes::rotate_left : n %= N*8 ; (*this << n) | (*this >> (N*8 - n))
rotate_left(d, n) ==
    LET m == n % (N * 8)
    IN OrBytes(Shl(d, m), Shr(d, N * 8 - m))

RotrShortFill(d, n) ==
    LET m == n % (N * 8)
    IN OrBytes(Shr(d, m), Shl(d, N * 8 - m + (IF m = 0 THEN 0 ELSE 1)))

\* bytes::rotate_right : n %= N*8 ; (*this >> n) | (*this << (N*8 - n))
rotate_right(d, n) ==
    LET m == n % (N * 8)
    IN OrBytes(Shr(d, m), Shl(d, N * 8 - m))

\* std::popcount of one byte
RECURSIVE BytePopcount(_)
BytePopcount(b) == IF b = 0 THEN 0 ELSE (b % 2) + BytePopcount(b \div 2)

\* bytes::popcount : count += std::popcount(data_[i]) for i = 0 .. N-1
RECURSIVE PopLoop(_, _, _)
PopLoop(d, i, count) ==
    IF i < N THEN PopLoop(d, i + 1, count + BytePopcount(d[i])) ELSE count

popcount(d) == PopLoop(d, 0, 0)

\* --------------------------------------------------------- bit operations
SetBitInByteZero(d, bit_pos) ==
    IF bit_pos < N * 8
    THEN [d EXCEPT ![0] = ToByte(BitOr(d[0], 2 ^ (bit_pos % 8)))]
    ELSE d

\* bytes::set_bit : data_[bit_pos / 8] |= (1 << (bit_pos % 8))
set_bit(d, bit_pos) ==
    IF bit_pos < N * 8
    THEN [d EXCEPT ![bit_pos \div 8] =
             ToByte(BitOr(d[bit_pos \div 8], 2 ^ (bit_pos % 8)))]
    ELSE d

ClearWholeByte(d, bit_pos) ==
    IF bit_pos < N * 8
    THEN [d EXCEPT ![bit_pos \div 8] = 0]
    ELSE d

\* bytes::clear_bit : data_[bit_pos / 8] &= ~(1 << (bit_pos % 8))
clear_bit(d, bit_pos) ==
    IF bit_pos < N * 8
    THEN [d EXCEPT ![bit_pos \div 8] =
             ToByte(BitAnd(d[bit_pos \div 8], IntNot(2 ^ (bit_pos % 8))))]
    ELSE d

ToggleNoRangeCheck(d, bit_pos) ==
    LET i == Min(bit_pos \div 8, N - 1)
    IN [d EXCEPT ![i] = ToByte(BitXor(d[i], 2 ^ (bit_pos % 8)))]

\* bytes::toggle_bit : data_[bit_pos / 8] ^= (1 << (bit_pos % 8))
toggle_bit(d, bit_pos) ==
    IF bit_pos < N * 8
    THEN [d EXCEPT ![bit_pos \div 8] =
             ToByte(BitXor(d[bit_pos \div 8], 2 ^ (bit_pos % 8)))]
    ELSE d

\* bytes::test_bit
test_bit(d, bit_pos) ==
    IF bit_pos >= N * 8 THEN FALSE
    ELSE BitAnd(d[bit_pos \div 8], 2 ^ (bit_pos % 8)) # 0

\* ------------------------------------------------- indexing, conversions
IndexWrapped(index) == index % N

\* bytes::operator[] (both overloads): the cell the returned reference
\* names, data_[std::min(index, N - 1)]
IndexClamped(index) == Min(index, N - 1)

\* the object representation of an unsigned integer of int_size bytes on
\* the little-endian hosts the header is written for (its @note, line 60)
ObjectRep(value, int_size) ==
    [i \in 0 .. int_size - 1 |-> (value \div 256 ^ i) % 256]

\* the unsigned integer whose object representation is rep
RECURSIVE ValueOfRep(_, _, _)
ValueOfRep(rep, int_size, i) ==
    IF i < int_size
    THEN rep[i] + 256 * ValueOfRep(rep, int_size, i + 1)
    ELSE 0

FromIntHighBytesFirst(value, int_size) ==
    LET copy_size == Min(N, int_size)
        rep == ObjectRep(value, int_size)
    IN [i \in 0 .. N - 1 |->
           IF i < copy_size THEN rep[int_size - 1 - i] ELSE 0]

\* bytes::bytes(IntType) : memcpy(data_, &value, min(N, sizeof(IntType)))
\* over the zero-initialised data_
FromInt(value, int_size) ==
    LET copy_size == Min(N, int_size)
        rep == ObjectRep(value, int_size)
    IN [i \in 0 .. N - 1 |-> IF i < copy_size THEN rep[i] ELSE 0]

\* bytes::to_int<IntType> : result = 0 ;
\* memcpy(&result, data_, min(N, sizeof(IntType)))
to_int(d, int_size) ==
    LET copy_size == Min(N, int_size)
        rep == [i \in 0 .. int_size - 1 |->
                   IF i < copy_size THEN d[i] ELSE 0]
    IN ValueOfRep(rep, int_size, 0)

\* ------------------------------------------------------------- rendering
\* the inner loop `for (j = 7 ; j >= 0 ; --j) os << ((b >> j) & 1 ? '1' : '0')`
RECURSIVE ByteDigits(_, _)
ByteDigits(b, j) ==
    IF j >= 0
    THEN <<(IF BitAnd(b \div 2 ^ j, 1) # 0 THEN "1" ELSE "0")>>
         \o ByteDigits(b, j - 1)
    ELSE <<>>

RECURSIVE RenderLoopHighFirst(_, _)
RenderLoopHighFirst(d, i) ==
    IF i < N
    THEN ByteDigits(d[N - 1 - i], 7)
         \o (IF i # N - 1 THEN <<" ">> ELSE <<>>)
         \o RenderLoopHighFirst(d, i + 1)
    ELSE <<>>

\* operator<<(std::ostream&, const bytes&), the characters written to os:
\* the outer loop `for (i = 0 ; i < N ; ++i)`
RECURSIVE RenderLoop(_, _)
RenderLoop(d, i) ==
    IF i < N
    THEN ByteDigits(d[i], 7)
         \o (IF i # N - 1 THEN <<" ">> ELSE <<>>)
         \o RenderLoop(d, i + 1)
    ELSE <<>>

RECURSIVE HexLoop(_, _)
HexDigit(h) == <<"0", "1", "2", "3", "4", "5", "6", "7", "8", "9",
                 "a", "b", "c", "d", "e", "f">>[h + 1]

\* bytes::print_hex : "0x", then `for (i = N ; i-- > 0 ;)` two digits
HexLoop(d, i) ==
    IF i > 0
    THEN <<HexDigit(d[i - 1] \div 16), HexDigit(d[i - 1] % 16)>>
         \o HexLoop(d, i - 1)
    ELSE <<>>

\* ------------------------------------------------------------ the machine
\* the byte arrays receivers are constructed from
Containers == [0 .. N - 1 -> ByteVals]

\* a receiver constructed from a byte array, bytes(const byte_t (&)[N])
Init ==
    /\ N \in 1 .. MaxN
    /\ data_ \in Containers
    /\ op = "ctor"
    /\ arg = 0
    /\ val = 0
    /\ old = data_
    /\ ret = data_
    /\ steps = 0

\* a default-constructed receiver after x.fill(v)
InitFilled ==
    /\ N \in 1 .. MaxN
    /\ \E v \in ByteVals : data_ = [i \in 0 .. N - 1 |-> v]
    /\ op = "ctor"
    /\ arg = 0
    /\ val = 0
    /\ old = data_
    /\ ret = data_
    /\ steps = 0

ShiftCounts == 0 .. N * 8 + MaxOver

\* r = x << k
ShiftLeft(k) ==
    /\ op' = "shl"
    /\ arg' = k
    /\ val' = 0
    /\ old' = data_
    /\ ret' = Shl(data_, k)
    /\ UNCHANGED <<N, data_, steps>>

\* r = x >> k
ShiftRight(k) ==
    /\ op' = "shr"
    /\ arg' = k
    /\ val' = 0
    /\ old' = data_
    /\ ret' = Shr(data_, k)
    /\ UNCHANGED <<N, data_, steps>>

NextShift ==
    \/ \E k \in ShiftCounts : ShiftLeft(k)
    \/ \E k \in ShiftCounts : ShiftRight(k)

SpecShift == Init /\ [][NextShift]_vars

RotateCounts == 0 .. 2 * N * 8 + MaxOver

\* r = x.rotate_left(n)
RotateLeft(n) ==
    /\ op' = "rotate_left"
    /\ arg' = n
    /\ val' = 0
    /\ old' = data_
    /\ ret' = rotate_left(data_, n)
    /\ UNCHANGED <<N, data_, steps>>

\* r = x.rotate_right(n)
RotateRight(n) ==
    /\ op' = "rotate_right"
    /\ arg' = n
    /\ val' = 0
    /\ old' = data_
    /\ ret' = rotate_right(data_, n)
    /\ UNCHANGED <<N, data_, steps>>

NextRotate ==
    \/ \E n \in RotateCounts : RotateLeft(n)
    \/ \E n \in RotateCounts : RotateRight(n)

SpecRotate == Init /\ [][NextRotate]_vars

\* os << x
StreamOut ==
    /\ op' = "stream"
    /\ arg' = 0
    /\ val' = 0
    /\ old' = data_
    /\ ret' = RenderLoop(data_, 0)
    /\ UNCHANGED <<N, data_, steps>>

\* x.print_hex(os)
PrintHex ==
    /\ op' = "print_hex"
    /\ arg' = 0
    /\ val' = 0
    /\ old' = data_
    /\ ret' = <<"0", "x">> \o HexLoop(data_, N)
    /\ UNCHANGED <<N, data_, steps>>

NextRender ==
    \/ StreamOut
    \/ PrintHex

SpecRender == Init /\ [][NextRender]_vars

BitPositions == 0 .. N * 8 + MaxOver

\* x.set_bit(p)
SetBit(p) ==
    /\ steps < MaxSteps
    /\ op' = "set_bit"
    /\ arg' = p
    /\ val' = 0
    /\ old' = data_
    /\ data_' = set_bit(data_, p)
    /\ ret' = 0
    /\ steps' = steps + 1
    /\ UNCHANGED N

\* x.clear_bit(p)
ClearBit(p) ==
    /\ steps < MaxSteps
    /\ op' = "clear_bit"
    /\ arg' = p
    /\ val' = 0
    /\ old' = data_
    /\ data_' = clear_bit(data_, p)
    /\ ret' = 0
    /\ steps' = steps + 1
    /\ UNCHANGED N

\* x.toggle_bit(p)
ToggleBit(p) ==
    /\ steps < MaxSteps
    /\ op' = "toggle_bit"
    /\ arg' = p
    /\ val' = 0
    /\ old' = data_
    /\ data_' = toggle_bit(data_, p)
    /\ ret' = 0
    /\ steps' = steps + 1
    /\ UNCHANGED N

\* r = x.test_bit(p)
TestBit(p) ==
    /\ op' = "test_bit"
    /\ arg' = p
    /\ val' = 0
    /\ old' = data_
    /\ ret' = test_bit(data_, p)
    /\ UNCHANGED <<N, data_, steps>>

NextBits ==
    \/ \E p \in BitPositions : SetBit(p)
    \/ \E p \in BitPositions : ClearBit(p)
    \/ \E p \in BitPositions : ToggleBit(p)
    \/ \E p \in BitPositions : TestBit(p)

SpecBits == InitFilled /\ [][NextBits]_vars

\* sizeof(IntType) for uint8_t and uint16_t
IntSizes == {1, 2}

\* values of each type: 0x00, 0x01, 0x96, 0xFF;
\* 0x00FF, 0x0102, 0x8000, 0x9601, 0xFFFF
UIntVals(int_size) ==
    IF int_size = 1 THEN {0, 1, 150, 255}
    ELSE {255, 258, 32768, 38401, 65535}

\* x = bytes<N>(value) for an IntType of int_size bytes
ConstructFromInt(value, int_size) ==
    /\ op' = "from_int"
    /\ arg' = int_size
    /\ val' = value
    /\ old' = data_
    /\ data_' = FromInt(value, int_size)
    /\ ret' = 0
    /\ steps' = 0
    /\ UNCHANGED N

\* r = x.to_int<IntType>() for an IntType of int_size bytes
ToInt(int_size) ==
    /\ op' = "to_int"
    /\ arg' = int_size
    /\ val' = 0
    /\ old' = data_
    /\ ret' = to_int(data_, int_size)
    /\ UNCHANGED <<N, data_, steps>>

NextConv ==
    \/ \E w \in IntSizes : \E v \in UIntVals(w) : ConstructFromInt(v, w)
    \/ \E w \in IntSizes : ToInt(w)

SpecConv == Init /\ [][NextConv]_vars

Indices == 0 .. N - 1 + MaxOver

\* r = x[i] through the const overload
IndexRead(i) ==
    /\ op' = "index_read"
    /\ arg' = i
    /\ val' = 0
    /\ old' = data_
    /\ ret' = data_[IndexClamped(i)]
    /\ UNCHANGED <<N, data_, steps>>

\* x[i] = v through the mutable overload; 0x5A is in no constructed receiver
IndexWrite(i, v) ==
    /\ steps < MaxSteps
    /\ op' = "index_write"
    /\ arg' = i
    /\ val' = v
    /\ old' = data_
    /\ data_' = [data_ EXCEPT ![IndexClamped(i)] = v]
    /\ ret' = 0
    /\ steps' = steps + 1
    /\ UNCHANGED N

NextIndex ==
    \/ \E i \in Indices : IndexRead(i)
    \/ \E i \in Indices : \E v \in ByteVals \cup {90} : IndexWrite(i, v)

SpecIndex == Init /\ [][NextIndex]_vars

\* every call a client can make on a receiver
Next ==
    \/ NextShift
    \/ NextRotate
    \/ NextBits
    \/ NextConv
    \/ NextIndex
    \/ NextRender

Spec == Init /\ [][Next]_vars

\* ------------------------------------------------------ claim vocabulary
TotalBits == N * 8

\* bit p of a container read as one little-endian bit sequence
BitAt(d, p) == (d[p \div 8] \div 2 ^ (p % 8)) % 2

IsContainer(d) ==
    /\ DOMAIN d = 0 .. N - 1
    /\ \A i \in 0 .. N - 1 : d[i] \in 0 .. 255

\* C1: x << k is the logical left shift of the N*8-bit little-endian bit
\* sequence: bit p of the result is bit p-k of x when p >= k and 0
\* otherwise, every result byte staying within 0..255 (hence x << 0 == x,
\* all-zero for k >= N*8, and carries cross byte boundaries).
C1_ShiftLeftLogical ==
    op = "shl" =>
        /\ IsContainer(ret)
        /\ \A p \in 0 .. TotalBits - 1 :
              BitAt(ret, p) = IF p >= arg THEN BitAt(old, p - arg) ELSE 0
        /\ (arg = 0 => ret = old)
        /\ (arg >= TotalBits => ret = ZeroBytes)

\* a shift by 9..15 bits of a 3-byte receiver moved a set bit of byte 0
\* across two byte boundaries, and a carry went from byte 0 into byte 1
C1_Witness ==
    /\ op = "shl"
    /\ N = 3
    /\ arg = 11
    /\ old[0] = 150
    /\ ret[1] = ToByte(150 * 8)
    /\ ret[2] # ToByte(old[1] * 8)

\* C2: x >> k is the logical right shift with zero fill: bit p of the
\* result is bit p+k of x when p+k < N*8 and 0 otherwise (hence
\* x >> 0 == x, all-zero for k >= N*8), every result byte within 0..255.
C2_ShiftRightLogical ==
    op = "shr" =>
        /\ IsContainer(ret)
        /\ \A p \in 0 .. TotalBits - 1 :
              BitAt(ret, p) =
                  IF p + arg < TotalBits THEN BitAt(old, p + arg) ELSE 0
        /\ (arg = 0 => ret = old)
        /\ (arg >= TotalBits => ret = ZeroBytes)

\* a shift by 11 bits of a 3-byte receiver brought the low bits dropped
\* from byte 2 into the high bits of result byte 0
C2_Witness ==
    /\ op = "shr"
    /\ N = 3
    /\ arg = 11
    /\ old[2] = 150
    /\ old[1] = 1
    /\ ret[0] = 192
    /\ ret[1] = 18

\* C3: rotate_left(n) is a circular permutation of the N*8 bits: with
\* T = N*8 and m = n mod T the halves x << m and x >> (T - m) share no set
\* bit, bit p of the result is bit (p - m) mod T of x, and popcount is
\* preserved; rotate_right(n) mirrors it, bit p being bit (p + m) mod T.
C3_RotateIsPermutation ==
    LET m == arg % TotalBits
    IN /\ op = "rotate_left" =>
            /\ \A p \in 0 .. TotalBits - 1 :
                  /\ ~(BitAt(Shl(old, m), p) = 1
                       /\ BitAt(Shr(old, TotalBits - m), p) = 1)
                  /\ BitAt(ret, p) = BitAt(old, (p - m) % TotalBits)
            /\ popcount(ret) = popcount(old)
       /\ op = "rotate_right" =>
            /\ \A p \in 0 .. TotalBits - 1 :
                  /\ ~(BitAt(Shr(old, m), p) = 1
                       /\ BitAt(Shl(old, TotalBits - m), p) = 1)
                  /\ BitAt(ret, p) = BitAt(old, (p + m) % TotalBits)
            /\ popcount(ret) = popcount(old)

\* a rotation by 11 bits of a 3-byte receiver wrapped the top bits of
\* byte 2 round into byte 0 and changed the container
C3_Witness ==
    /\ op = "rotate_left"
    /\ N = 3
    /\ arg = 11
    /\ old = (0 :> 1 @@ 1 :> 0 @@ 2 :> 150)
    /\ ret = (0 :> 176 @@ 1 :> 12 @@ 2 :> 0)

\* C4: for 0 <= n < N*8, x.rotate_left(n).rotate_right(n) == x.
C4_RotateRoundTrip ==
    (op = "rotate_left" /\ arg < TotalBits) =>
        rotate_right(ret, arg) = old

\* the round trip started from a rotation that really moved bits
C4_Witness ==
    /\ op = "rotate_left"
    /\ N >= 2
    /\ arg \in 1 .. TotalBits - 1
    /\ arg % 8 # 0
    /\ ret # old
    /\ rotate_right(ret, arg) = old

\* C5: rotation is periodic in N*8: rotate_left(n) == rotate_left(n mod
\* N*8), and a rotation by 0 or a multiple of N*8 returns x, the shift by
\* the full N*8 bits contributing the all-zero container.
C5_RotatePeriodic ==
    op = "rotate_left" =>
        /\ ret = rotate_left(old, arg % TotalBits)
        /\ (arg % TotalBits = 0 =>
               /\ ret = old
               /\ Shr(old, TotalBits - (arg % TotalBits)) = ZeroBytes)

\* a rotation by exactly 2 * N*8 bits of a non-zero receiver, and one by
\* more than N*8 bits that is not a multiple
C5_Witness ==
    /\ op = "rotate_left"
    /\ old # ZeroBytes
    /\ arg = 2 * TotalBits
    /\ ret = old

\* the character written for bit j of byte b
DigitOf(b, j) == IF (b \div 2 ^ j) % 2 = 1 THEN "1" ELSE "0"

\* the shape common to both readings of the binary rendering: N groups of
\* 8 binary digits, bit 7 first, one space between groups, none trailing;
\* group g (0-based, in output order) shows byte ByteOfGroup[g]
RenderedAs(out, d, ByteOfGroup(_)) ==
    /\ Len(out) = 9 * N - 1
    /\ \A g \in 0 .. N - 1 :
          /\ \A c \in 0 .. 7 :
                out[9 * g + c + 1] = DigitOf(d[ByteOfGroup(g)], 7 - c)
          /\ (g < N - 1 => out[9 * g + 9] = " ")

HighToLow(g) == N - 1 - g
LowToHigh(g) == g

\* C6 (as stated): the binary rendering lists the bytes in high-to-low
\* byte order (byte N-1 first, byte 0 last), 8 binary digits per byte with
\* bit 7 first, single spaces between bytes, no trailing space.
C6_RenderHighToLow ==
    op = "stream" => RenderedAs(ret, old, HighToLow)

\* C6 (amended): the binary rendering lists the bytes in index order
\* (byte 0 first, byte N-1 last), 8 binary digits per byte with bit 7
\* first, single spaces between bytes, no trailing space.
C6_RenderIndexOrder ==
    op = "stream" => RenderedAs(ret, old, LowToHigh)

\* a 3-byte receiver whose first and last bytes differ was rendered
C6_Witness ==
    /\ op = "stream"
    /\ N = 3
    /\ old = (0 :> 1 @@ 1 :> 0 @@ 2 :> 150)
    /\ ret = <<"0", "0", "0", "0", "0", "0", "0", "1", " ",
               "0", "0", "0", "0", "0", "0", "0", "0", " ",
               "1", "0", "0", "1", "0", "1", "1", "0">>

\* C7: for every in-range bit position p, position p being bit p % 8 of
\* byte p / 8: after set_bit(p) test_bit(p) is true, after clear_bit(p)
\* test_bit(p) is false, and toggle_bit(p) applied twice leaves
\* test_bit(p) at its original value.
C7_BitAccessorsAgree ==
    arg < TotalBits =>
        /\ (op = "set_bit" =>
               /\ test_bit(data_, arg)
               /\ BitAt(data_, arg) = 1)
        /\ (op = "clear_bit" =>
               /\ ~test_bit(data_, arg)
               /\ BitAt(data_, arg) = 0)
        /\ (op = "toggle_bit" =>
               /\ test_bit(data_, arg) = ~test_bit(old, arg)
               /\ test_bit(toggle_bit(data_, arg), arg) = test_bit(old, arg))
        /\ (op = "test_bit" => ret = (BitAt(old, arg) = 1))

\* set_bit set a bit that was clear, in the last byte of a 3-byte receiver
C7_Witness ==
    /\ op = "set_bit"
    /\ N = 3
    /\ arg = 19
    /\ old[2] = 150
    /\ data_[2] = 158
    /\ ~test_bit(old, arg)

\* C8: for every bit position pos >= N*8, set_bit, clear_bit and
\* toggle_bit leave all N bytes unchanged and test_bit returns false.
C8_OutOfRangeBitIgnored ==
    arg >= TotalBits =>
        /\ (op \in {"set_bit", "clear_bit", "toggle_bit"} => data_ = old)
        /\ (op = "test_bit" => ret = FALSE /\ data_ = old)

\* toggle_bit was called with the first position past the end on a
\* receiver whose last byte is not zero
C8_Witness ==
    /\ op = "toggle_bit"
    /\ arg = TotalBits
    /\ old[N - 1] = 255
    /\ data_ = old

\* value mod 256^k, computed byte by byte
RECURSIVE LowBytes(_, _)
LowBytes(value, k) ==
    IF k = 0 THEN 0 ELSE (value % 256) + 256 * LowBytes(value \div 256, k - 1)

\* C9: for an unsigned integer type of W bytes and every value v of it,
\* the container built from v has byte i equal to (v / 256^i) mod 256 for
\* i < min(N, W) and 0 above, and to_int of the same type then yields
\* v mod 256^min(N, W), which is v whenever N >= W.
C9_IntegerRoundTrip ==
    op = "from_int" =>
        LET W == arg
            v == val
        IN /\ \A i \in 0 .. N - 1 :
                 data_[i] = IF i < Min(N, W) THEN (v \div 256 ^ i) % 256
                            ELSE 0
           /\ to_int(data_, W) = LowBytes(v, Min(N, W))
           /\ (N >= W => to_int(data_, W) = v)

\* a 16-bit value with distinct bytes was stored into a 3-byte receiver
\* that held other bytes, and comes back whole
C9_Witness ==
    /\ op = "from_int"
    /\ N = 3
    /\ arg = 2
    /\ val = 38401
    /\ old = (0 :> 255 @@ 1 :> 255 @@ 2 :> 255)
    /\ data_ = (0 :> 1 @@ 1 :> 150 @@ 2 :> 0)
    /\ to_int(data_, 2) = 38401

\* C10: indexed access clamps its index: reading x[i] returns the byte at
\* min(i, N-1), and a write through x[i] changes only the byte at
\* min(i, N-1), every other byte staying as it was.
C10_IndexClamps ==
    LET c == IF arg < N THEN arg ELSE N - 1
    IN /\ (op = "index_read" => ret = old[c] /\ data_ = old)
       /\ (op = "index_write" =>
              /\ data_[c] = val
              /\ \A j \in 0 .. N - 1 : j # c => data_[j] = old[j]
              /\ DOMAIN data_ = 0 .. N - 1)

\* a write through an index past the end landed in the last byte of a
\* 3-byte receiver
C10_Witness ==
    /\ op = "index_write"
    /\ N = 3
    /\ arg = 4
    /\ val = 90
    /\ old = (0 :> 1 @@ 1 :> 150 @@ 2 :> 255)
    /\ data_ = (0 :> 1 @@ 1 :> 150 @@ 2 :> 90)

\* C11: the single-bit mutators touch only their target bit: for every
\* in-range position p, after set_bit(p), clear_bit(p) or toggle_bit(p)
\* every bit q # p has the value it had before the call and popcount
\* changes by at most 1; set_bit and clear_bit are idempotent.
C11_BitMutatorsFrame ==
    (op \in {"set_bit", "clear_bit", "toggle_bit"} /\ arg < TotalBits) =>
        /\ \A q \in 0 .. TotalBits - 1 :
              q # arg => BitAt(data_, q) = BitAt(old, q)
        /\ popcount(data_) - popcount(old) \in {-1, 0, 1}
        /\ (op = "toggle_bit" => popcount(data_) # popcount(old))
        /\ (op = "set_bit" => set_bit(data_, arg) = data_)
        /\ (op = "clear_bit" => clear_bit(data_, arg) = data_)

\* clear_bit cleared bit 3 of the last byte of an all-ones 3-byte
\* receiver: one bit fewer, the other seven bits of that byte still set
C11_Witness ==
    /\ op = "clear_bit"
    /\ N = 3
    /\ arg = 19
    /\ old = (0 :> 255 @@ 1 :> 255 @@ 2 :> 255)
    /\ data_ = (0 :> 255 @@ 1 :> 255 @@ 2 :> 247)
    /\ popcount(data_) = 23

====
